---- MODULE Spec2Model ----
(***************************************************************************)
(* A model of the todo service: the `todos` table, the six repository      *)
(* operations of PostgresTodoRepository (repository.rs), the handlers that *)
(* wrap them (handlers.rs) and the error-to-transport mapping (error.rs).  *)
(*                                                                         *)
(* Every SQL statement is one atomic step.  update is two statements (an   *)
(* existence check, then the UPDATE or SELECT), so an update request has   *)
(* a position between them and other statements may run in that window.    *)
(*                                                                         *)
(* NOW() is read from `clock`; every statement that writes a timestamp     *)
(* runs at an instant later than every instant written before it.  The     *)
(* database answers every statement: storage failures other than "no row"  *)
(* are not part of the model.                                              *)
(***************************************************************************)
EXTENDS Integers, Sequences, FiniteSets, TLC

\* Bounds of the model.
MaxTodos == 2
MaxClock == 3
MaxInFlight == 1

\* StatusCode values used by handlers.rs and error.rs.
OK == 200
CREATED == 201
NO_CONTENT == 204
BAD_REQUEST == 400
UNAUTHORIZED == 401
NOT_FOUND == 404
INTERNAL_SERVER_ERROR == 500

VARIABLES todos, clock, nextId, inflight, last, before, err

vars == <<todos, clock, nextId, inflight, last, before, err>>

\* Option<T>
None == [some |-> FALSE]
Some(v) == [some |-> TRUE, val |-> v]

\* Uuid values a request path can carry.
Ids == 1 .. MaxTodos

\* CreateTodo { title: String, description: Option<String> }
CreateTodo == [title : {"t1"}, description : {None, Some("d1")}]

\* UpdateTodo { title, description, completed }, each optional.
UpdateTodo ==
  [title : {None, Some("t2")},
   description : {None, Some("d2")},
   completed : {None, Some(TRUE), Some(FALSE)}]

\* Result<T, AppError>
Ok(v) == [ok |-> TRUE, val |-> v]
Err(e) == [ok |-> FALSE, err |-> e]

\* ------------------------------------------------------------------ errors

\* ErrorMessage::to_str: the message texts the service defines.
ErrorMessage ==
  { <<"Server Error. Please try again later">>,
    <<"Bad request">>,
    <<"Unauthorized">>,
    <<"You are not allowed to perform this action">>,
    <<"Todo not found">>,
    <<"Validation error">>,
    <<"Todo is already completed">>,
    <<"Email or password is wrong">>,
    <<"A user with this email already exists">>,
    <<"User belonging to this token no longer exists">>,
    <<"Password cannot be empty">>,
    <<"Error while hashing password">>,
    <<"Invalid password hash format">>,
    <<"Authentication token is invalid or expired">>,
    <<"You are not logged in, please provide a token">>,
    <<"Authentication required. Please log in.">> }

\* format!("Todo with id {} not found", id)
NotFoundMessage(id) == <<"Todo with id ", id, " not found">>

\* sqlx::Error values a query can fail with.
SqlxError == {"RowNotFound", "PoolTimedOut", "PoolClosed", "WorkerCrashed"}

\* e.to_string() of a sqlx::Error.
SqlxToString(e) == <<"sqlx error: ", e>>

\* The AppError variants.
NotFound(msg) == [variant |-> "NotFound", msg |-> msg]
BadRequest(msg) == [variant |-> "BadRequest", msg |-> msg]
Unauthorized(msg) == [variant |-> "Unauthorized", msg |-> msg]
\* The conversion with "no row" turned into the domain's NotFound.
DatabaseErrorRowAsNotFound(e) ==
  IF e = "RowNotFound" THEN [variant |-> "NotFound", msg |-> <<"Todo not found">>]
  ELSE [variant |-> "DatabaseError", source |-> e]

\* impl From<SqlxError> for AppError
DatabaseError(e) == [variant |-> "DatabaseError", source |-> e]
Internal(msg) == [variant |-> "Internal", msg |-> msg]

Messages == ErrorMessage \cup {NotFoundMessage(id) : id \in Ids}

AppError ==
  {NotFound(m) : m \in Messages} \cup {BadRequest(m) : m \in Messages}
    \cup {Unauthorized(m) : m \in Messages} \cup {Internal(m) : m \in Messages}
    \cup {DatabaseError(e) : e \in SqlxError}

\* HttpError { message, status }
HttpError(message, status) == [message |-> message, status |-> status]

\* The mapping with Unauthorized answered as a bad request.
HttpErrorFromCopied(e) ==
  CASE e.variant = "NotFound" -> HttpError(e.msg, NOT_FOUND)
    [] e.variant = "BadRequest" -> HttpError(e.msg, BAD_REQUEST)
    [] e.variant = "Unauthorized" -> HttpError(e.msg, BAD_REQUEST)
    [] e.variant = "DatabaseError" ->
         HttpError(SqlxToString(e.source), INTERNAL_SERVER_ERROR)
    [] e.variant = "Internal" -> HttpError(e.msg, INTERNAL_SERVER_ERROR)

\* impl From<AppError> for HttpError
HttpErrorFrom(e) ==
  CASE e.variant = "NotFound" -> HttpError(e.msg, NOT_FOUND)
    [] e.variant = "BadRequest" -> HttpError(e.msg, BAD_REQUEST)
    [] e.variant = "Unauthorized" -> HttpError(e.msg, UNAUTHORIZED)
    [] e.variant = "DatabaseError" ->
         HttpError(SqlxToString(e.source), INTERNAL_SERVER_ERROR)
    [] e.variant = "Internal" -> HttpError(e.msg, INTERNAL_SERVER_ERROR)

\* HttpError::into_http_response
IntoHttpResponse(h) ==
  [status |-> h.status, body |-> [status |-> "fail", message |-> h.message]]

\* impl IntoResponse for AppError
IntoResponse(e) == IntoHttpResponse(HttpErrorFrom(e))

\* A handler's response: the success status with the JSON body, or the
\* mapped error.
Respond(res, status) ==
  IF res.ok THEN [status |-> status, body |-> res.val] ELSE IntoResponse(res.err)

\* ------------------------------------------------------------------ table

\* The rows of `todos` with the given primary key.
WhereId(T, id) == {r \in T : r.id = id}

\* What the table's column defaults give a row the INSERT names no value
\* for: its generated identifier, completed = false and both timestamps at
\* the statement's NOW().
ColumnDefaults(id, now) ==
  [id |-> id, completed |-> FALSE, created_at |-> now, updated_at |-> now]

\* The row "INSERT INTO todos (title, description) VALUES ($1, $2)" stores
\* and returns.
InsertRow(title, description, defaults) ==
  [id |-> defaults.id, title |-> title, description |-> description,
   completed |-> defaults.completed, created_at |-> defaults.created_at,
   updated_at |-> defaults.updated_at]

\* NOW() of a statement that writes.
Now == clock + 1

\* ORDER BY created_at without DESC.
OrderByCreatedAtAsc(S) ==
  {s \in [1 .. Cardinality(S) -> S] :
     /\ \A i, j \in 1 .. Cardinality(S) : i # j => s[i] # s[j]
     /\ \A i, j \in 1 .. Cardinality(S) :
          i < j => s[i].created_at <= s[j].created_at}

\* The rows fetch_all returns under ORDER BY created_at DESC: every ordering
\* of S that is descending in created_at (rows with equal created_at come in
\* any order).
OrderByCreatedAtDesc(S) ==
  {s \in [1 .. Cardinality(S) -> S] :
     /\ \A i, j \in 1 .. Cardinality(S) : i # j => s[i] # s[j]
     /\ \A i, j \in 1 .. Cardinality(S) :
          i < j => s[i].created_at >= s[j].created_at}

\* The rows list selects: all of them, or those WHERE completed = $1.
ListSelect(T, completed) ==
  IF completed.some THEN {r \in T : r.completed = completed.val} ELSE T

\* The SET clauses update appends after "updated_at = NOW()", in order.
QueryColumns(payload) ==
  (IF payload.title.some THEN <<"title">> ELSE <<>>)
    \o (IF payload.description.some THEN <<"description">> ELSE <<>>)
    \o (IF payload.completed.some THEN <<"completed">> ELSE <<>>)

\* QueryBinds with title and description bound in each other's place.
QueryBindsSwapped(id, payload) ==
  LET t == payload.title
      d == payload.description
      c == payload.completed
  IN CASE t.some /\ d.some /\ c.some -> <<d.val, t.val, c.val, id>>
       [] t.some /\ d.some /\ ~c.some -> <<d.val, t.val, id>>
       [] t.some /\ ~d.some /\ c.some -> <<t.val, c.val, id>>
       [] t.some /\ ~d.some /\ ~c.some -> <<t.val, id>>
       [] ~t.some /\ d.some /\ c.some -> <<d.val, c.val, id>>
       [] ~t.some /\ d.some /\ ~c.some -> <<d.val, id>>
       [] ~t.some /\ ~d.some /\ c.some -> <<c.val, id>>
       [] ~t.some /\ ~d.some /\ ~c.some -> <<id>>

\* The values update binds, in order, in the arm its match selects; the
\* identifier is the last parameter.
QueryBinds(id, payload) ==
  LET t == payload.title
      d == payload.description
      c == payload.completed
  IN CASE t.some /\ d.some /\ c.some -> <<t.val, d.val, c.val, id>>
       [] t.some /\ d.some /\ ~c.some -> <<t.val, d.val, id>>
       [] t.some /\ ~d.some /\ c.some -> <<t.val, c.val, id>>
       [] t.some /\ ~d.some /\ ~c.some -> <<t.val, id>>
       [] ~t.some /\ d.some /\ c.some -> <<d.val, c.val, id>>
       [] ~t.some /\ d.some /\ ~c.some -> <<d.val, id>>
       [] ~t.some /\ ~d.some /\ c.some -> <<c.val, id>>
       [] ~t.some /\ ~d.some /\ ~c.some -> <<id>>

\* No arm for an input without fields: the built UPDATE runs for it too.
NoSelectArm(payload) == FALSE

\* Whether update's match takes the (None, None, None) arm, which runs the
\* SELECT ("No updates, just return existing") and not the built UPDATE.
SelectArm(payload) ==
  ~payload.title.some /\ ~payload.description.some /\ ~payload.completed.some

\* One assignment "col = $i" applied to a row.
SetColumn(r, col, v) ==
  CASE col = "title" -> [r EXCEPT !.title = v]
    [] col = "description" -> [r EXCEPT !.description = Some(v)]
    [] col = "completed" -> [r EXCEPT !.completed = v]

\* The SET list of the built statement applied to a row: updated_at = NOW(),
\* then the i-th appended column takes the i-th bound value.
RECURSIVE SetClauses(_, _, _, _)
SetClauses(r, cols, binds, i) ==
  IF i > Len(cols) THEN r
  ELSE SetClauses(SetColumn(r, cols[i], binds[i]), cols, binds, i + 1)

\* The rows "UPDATE todos SET updated_at = NOW(), ... WHERE id = $n
\* RETURNING ..." writes and returns; $n is the parameter after the columns'.
UpdateReturning(T, cols, binds, now) ==
  {SetClauses([r EXCEPT !.updated_at = now], cols, binds, 1) :
     r \in WhereId(T, binds[Len(cols) + 1])}

\* mark_completed writing NOW() to created_at.
CompletedRowCreatedAt(r, now) == [r EXCEPT !.completed = TRUE, !.created_at = now]

\* The row "UPDATE todos SET completed = true, updated_at = NOW()" writes.
CompletedRow(r, now) == [r EXCEPT !.completed = TRUE, !.updated_at = now]

\* What the last finished request was and what its handler answered;
\* `present` tells whether a record with the request's identifier was stored
\* when the request ran its first statement (for an update that reached its
\* second statement the check found one).
Finished(op, stmt, id, arg, present, res, status) ==
  [op |-> op, stmt |-> stmt, id |-> id, arg |-> arg, present |-> present,
   res |-> res, http |-> Respond(res, status)]

\* ------------------------------------------------------------- operations

Init ==
  /\ todos = {}
  /\ clock = 0
  /\ nextId = 1
  /\ inflight = [id \in Ids |-> 0]
  /\ last = [op |-> "none"]
  /\ before = {}
  /\ err = None

\* create that binds no description.
CreateNoDescription(payload) ==
  /\ nextId <= MaxTodos
  /\ clock < MaxClock
  /\ LET todo == InsertRow(payload.title, None, ColumnDefaults(nextId, Now))
     IN /\ todos' = todos \cup {todo}
        /\ last' = Finished("create", "insert", 0, payload, FALSE, Ok(todo), CREATED)
  /\ nextId' = nextId + 1
  /\ clock' = Now
  /\ before' = todos
  /\ UNCHANGED <<inflight, err>>

\* create_todo / PostgresTodoRepository::create
Create(payload) ==
  /\ nextId <= MaxTodos
  /\ clock < MaxClock
  /\ LET todo == InsertRow(payload.title, payload.description,
                            ColumnDefaults(nextId, Now))
     IN /\ todos' = todos \cup {todo}
        /\ last' = Finished("create", "insert", 0, payload, FALSE, Ok(todo), CREATED)
  /\ nextId' = nextId + 1
  /\ clock' = Now
  /\ before' = todos
  /\ UNCHANGED <<inflight, err>>

\* list_todos / PostgresTodoRepository::list
List(completed) ==
  /\ \E rows \in OrderByCreatedAtDesc(ListSelect(todos, completed)) :
       last' = Finished("list", "select", 0, completed, FALSE, Ok(rows), OK)
  /\ before' = todos
  /\ UNCHANGED <<todos, clock, nextId, inflight, err>>

\* get_todo / PostgresTodoRepository::get
Get(id) ==
  /\ LET found == WhereId(todos, id)
         res == IF found = {} THEN Err(NotFound(NotFoundMessage(id)))
                ELSE Ok(CHOOSE r \in found : TRUE)
     IN last' = Finished("get", "select", id, None, found # {}, res, OK)
  /\ before' = todos
  /\ UNCHANGED <<todos, clock, nextId, inflight, err>>

\* The update requests that are past their existence check.
InFlight == LET RECURSIVE Sum(_)
                Sum(S) == IF S = {} THEN 0
                          ELSE LET x == CHOOSE x \in S : TRUE
                               IN inflight[x] + Sum(S \ {x})
            IN Sum(Ids)

\* update_todo / PostgresTodoRepository::update, first statement: the
\* existence check, which reads the identifier only.  NotFound ends the
\* request; otherwise the request goes on to its second statement.
UpdateCheck(id) ==
  /\ InFlight < MaxInFlight
  /\ IF WhereId(todos, id) = {}
     THEN /\ last' = Finished("update", "check", id, None, FALSE,
                              Err(NotFound(NotFoundMessage(id))), OK)
          /\ before' = todos
          /\ UNCHANGED inflight
     ELSE /\ inflight' = [inflight EXCEPT ![id] = @ + 1]
          /\ UNCHANGED <<last, before>>
  /\ UNCHANGED <<todos, clock, nextId, err>>

\* PostgresTodoRepository::update, second statement, where the payload is
\* first read: for an input without fields the SELECT, otherwise the built
\* UPDATE; both with fetch_one, which fails with RowNotFound when no row
\* comes back.
UpdateApply(id, payload) ==
  /\ inflight[id] > 0
  /\ inflight' = [inflight EXCEPT ![id] = @ - 1]
  /\ LET cols == QueryColumns(payload)
         binds == QueryBinds(id, payload)
     IN IF SelectArm(payload)
        THEN LET rows == WhereId(todos, binds[1])
             IN /\ last' = Finished("update", "apply", id, payload, TRUE,
                                    IF rows = {} THEN Err(DatabaseError("RowNotFound"))
                                    ELSE Ok(CHOOSE r \in rows : TRUE), OK)
                /\ UNCHANGED <<todos, clock>>
        ELSE LET rows == UpdateReturning(todos, cols, binds, Now)
             IN IF rows = {}
                THEN /\ last' = Finished("update", "apply", id, payload, TRUE,
                                         Err(DatabaseError("RowNotFound")), OK)
                     /\ UNCHANGED <<todos, clock>>
                ELSE /\ clock < MaxClock
                     /\ todos' = (todos \ WhereId(todos, binds[Len(cols) + 1])) \cup rows
                     /\ clock' = Now
                     /\ last' = Finished("update", "apply", id, payload, TRUE,
                                         Ok(CHOOSE r \in rows : TRUE), OK)
  /\ before' = todos
  /\ UNCHANGED <<nextId, err>>

\* delete whose statement lost its WHERE clause.
DeleteAll(id) ==
  /\ LET hit == WhereId(todos, id)
     IN /\ todos' = {}
        /\ last' = Finished("delete", "delete", id, None, hit # {},
                            IF Cardinality(todos) = 0
                            THEN Err(NotFound(NotFoundMessage(id)))
                            ELSE Ok(<<>>), NO_CONTENT)
  /\ before' = todos
  /\ UNCHANGED <<clock, nextId, inflight, err>>

\* delete with the rows_affected test inverted.
DeleteInverted(id) ==
  /\ LET hit == WhereId(todos, id)
     IN /\ todos' = todos \ hit
        /\ last' = Finished("delete", "delete", id, None, hit # {},
                            IF Cardinality(hit) # 0
                            THEN Err(NotFound(NotFoundMessage(id)))
                            ELSE Ok(<<>>), NO_CONTENT)
  /\ before' = todos
  /\ UNCHANGED <<clock, nextId, inflight, err>>

\* delete without the rows_affected test: always Ok.
DeleteNoCheck(id) ==
  /\ LET hit == WhereId(todos, id)
     IN /\ todos' = todos \ hit
        /\ last' = Finished("delete", "delete", id, None, hit # {}, Ok(<<>>),
                            NO_CONTENT)
  /\ before' = todos
  /\ UNCHANGED <<clock, nextId, inflight, err>>

\* delete_todo / PostgresTodoRepository::delete
Delete(id) ==
  /\ LET hit == WhereId(todos, id)
     IN /\ todos' = todos \ hit
        /\ last' = Finished("delete", "delete", id, None, hit # {},
                            IF Cardinality(hit) = 0
                            THEN Err(NotFound(NotFoundMessage(id)))
                            ELSE Ok(<<>>), NO_CONTENT)
  /\ before' = todos
  /\ UNCHANGED <<clock, nextId, inflight, err>>

\* mark_completed that leaves an already completed record as it is.
MarkCompletedIfPending(id) ==
  /\ LET hit == WhereId(todos, id)
         open == {r \in hit : ~r.completed}
     IN IF hit = {}
        THEN /\ last' = Finished("mark_completed", "update", id, None, FALSE,
                                 Err(NotFound(NotFoundMessage(id))), OK)
             /\ UNCHANGED <<todos, clock>>
        ELSE IF open = {}
        THEN /\ last' = Finished("mark_completed", "update", id, None, TRUE,
                                 Ok(CHOOSE r \in hit : TRUE), OK)
             /\ UNCHANGED <<todos, clock>>
        ELSE /\ clock < MaxClock
             /\ todos' = (todos \ hit) \cup {CompletedRow(r, Now) : r \in hit}
             /\ clock' = Now
             /\ last' = Finished("mark_completed", "update", id, None, TRUE,
                                 Ok(CHOOSE r \in WhereId(todos', id) : TRUE), OK)
  /\ before' = todos
  /\ UNCHANGED <<nextId, inflight, err>>

\* mark_completed / PostgresTodoRepository::mark_completed
MarkCompleted(id) ==
  /\ LET hit == WhereId(todos, id)
     IN IF hit = {}
        THEN /\ last' = Finished("mark_completed", "update", id, None, FALSE,
                                 Err(NotFound(NotFoundMessage(id))), OK)
             /\ UNCHANGED <<todos, clock>>
        ELSE /\ clock < MaxClock
             /\ todos' = (todos \ hit) \cup {CompletedRow(r, Now) : r \in hit}
             /\ clock' = Now
             /\ last' = Finished("mark_completed", "update", id, None, TRUE,
                                 Ok(CHOOSE r \in WhereId(todos', id) : TRUE), OK)
  /\ before' = todos
  /\ UNCHANGED <<nextId, inflight, err>>

Next ==
  \/ \E payload \in CreateTodo : Create(payload)
  \/ \E completed \in {None, Some(TRUE), Some(FALSE)} : List(completed)
  \/ \E id \in Ids : Get(id)
  \/ \E id \in Ids : UpdateCheck(id)
  \/ \E id \in Ids, payload \in UpdateTodo : UpdateApply(id, payload)
  \/ \E id \in Ids : Delete(id)
  \/ \E id \in Ids : MarkCompleted(id)

Spec == Init /\ [][Next]_vars

\* ------------------------------------------------- the error mapping alone

\* Any AppError a handler may return.
ErrInit ==
  /\ todos = {}
  /\ clock = 0
  /\ nextId = 1
  /\ inflight = [id \in Ids |-> 0]
  /\ last = [op |-> "none"]
  /\ before = {}
  /\ err \in {Some(e) : e \in AppError}

\* impl IntoResponse for AppError, applied to the handler's error.
ErrIntoResponse ==
  /\ err.some
  /\ last' = [op |-> "into_response", err |-> err.val, http |-> IntoResponse(err.val)]
  /\ UNCHANGED <<todos, clock, nextId, inflight, before, err>>

ErrNext == ErrIntoResponse

ErrSpec == ErrInit /\ [][ErrNext]_vars

\* ------------------------------------------------------------------ claims

\* The operations that name one record.
ByIdOps == {"get", "update", "delete", "mark_completed"}

\* The record `id` names in table T (there is at most one).
RowOf(T, id) == CHOOSE r \in WhereId(T, id) : TRUE

\* C1: get, update, delete and markCompleted of an identifier that has no
\* stored record fail with NotFound (transport status 404): the answer
\* carries no record, is not a success, and the store is left as it was.
C1_AbsentIsNotFound ==
  (last.op \in ByIdOps /\ ~last.present) =>
    /\ ~last.res.ok
    /\ last.res.err = NotFound(NotFoundMessage(last.id))
    /\ last.http.status = NOT_FOUND
    /\ last.http.body = [status |-> "fail", message |-> NotFoundMessage(last.id)]
    /\ todos = before

\* C1 witness: an update of an identifier without a record has failed while
\* another record is stored.
C1_Witness ==
  /\ last.op = "update"
  /\ ~last.present
  /\ ~last.res.ok
  /\ todos # {}
  /\ WhereId(todos, last.id) = {}

\* The last finished request is an update that reached its second statement
\* while its record was stored.
UpdateApplied ==
  /\ last.op = "update"
  /\ last.stmt = "apply"
  /\ WhereId(before, last.id) # {}

\* UpdateTodo with every field omitted.
EmptyInput == [title |-> None, description |-> None, completed |-> None]

\* C2 as stated: an update with an empty input on an existing record succeeds,
\* advances the stored updated_at to the current time and returns the record
\* with every other field unchanged.
C2_EmptyUpdateAdvances ==
  (UpdateApplied /\ last.arg = EmptyInput) =>
    /\ last.res.ok
    /\ LET old == RowOf(before, last.id)
           new == last.res.val
       IN /\ new \in todos
          /\ new.updated_at = clock
          /\ new.updated_at > old.updated_at
          /\ new = [old EXCEPT !.updated_at = new.updated_at]

\* C2 amended: an update with an empty input on a record that is stored when
\* its statements run succeeds, writes nothing, and returns the stored record
\* with every field unchanged, updated_at included.
C2_EmptyUpdateReturnsStored ==
  (UpdateApplied /\ last.arg = EmptyInput) =>
    /\ last.res.ok
    /\ last.res.val = RowOf(before, last.id)
    /\ last.http = [status |-> OK, body |-> RowOf(before, last.id)]
    /\ todos = before

\* C2 witness: an empty update has answered for a record that was written
\* after its creation.
C2_Witness ==
  /\ UpdateApplied
  /\ last.arg = EmptyInput
  /\ last.res.ok
  /\ last.res.val.updated_at > last.res.val.created_at

\* What a record must be after an update with input p: each supplied value in
\* its own column, everything else but updated_at as it was.
Patched(old, p, updated_at) ==
  [id |-> old.id,
   title |-> IF p.title.some THEN p.title.val ELSE old.title,
   description |-> IF p.description.some THEN Some(p.description.val)
                   ELSE old.description,
   completed |-> IF p.completed.some THEN p.completed.val ELSE old.completed,
   created_at |-> old.created_at,
   updated_at |-> updated_at]

\* C3 as stated: for each of the eight subsets of fields supplied, an update of
\* an existing record writes each supplied value to its own column, leaves the
\* omitted fields, the identifier and created_at unchanged, leaves every other
\* record unchanged, and returns the post-update record with updated_at
\* strictly later than before.
C3_EverySubsetAdvances ==
  UpdateApplied =>
    /\ last.res.ok
    /\ LET old == RowOf(before, last.id)
           new == last.res.val
       IN /\ new = Patched(old, last.arg, new.updated_at)
          /\ new.updated_at > old.updated_at
          /\ todos = (before \ {old}) \cup {new}

\* C3 amended: for each of the seven non-empty subsets the update does all of
\* the above; for the empty subset it writes nothing and updated_at stays as it
\* was.
C3_SuppliedFieldsWritten ==
  UpdateApplied =>
    /\ last.res.ok
    /\ LET old == RowOf(before, last.id)
           new == last.res.val
       IN /\ new = Patched(old, last.arg, new.updated_at)
          /\ todos = (before \ {old}) \cup {new}
          /\ IF last.arg = EmptyInput
             THEN new.updated_at = old.updated_at
             ELSE new.updated_at > old.updated_at /\ new.updated_at = clock

\* C3 witness: an update supplying title and description only has answered
\* while a second record is stored.
C3_Witness ==
  /\ UpdateApplied
  /\ last.res.ok
  /\ last.arg.title.some /\ last.arg.description.some /\ ~last.arg.completed.some
  /\ Cardinality(todos) = 2

\* A step that ends a request: no update request passes its existence check
\* in it, so `last` after the step is the answer the step gave.
StepFinished == \A id \in Ids : inflight'[id] <= inflight[id]

\* C4: delete of an existing record succeeds (204) and removes exactly that
\* record, every other record staying as it is; a delete of an identifier
\* without a record, so also a second delete right after a successful one,
\* fails with NotFound and changes nothing.
C4_DeleteRemovesOnce ==
  [][(StepFinished /\ last'.op = "delete") =>
       LET hit == WhereId(todos, last'.id)
       IN /\ IF hit # {}
             THEN /\ last'.res.ok
                  /\ last'.http.status = NO_CONTENT
                  /\ Cardinality(hit) = 1
                  /\ todos' = todos \ hit
                  /\ WhereId(todos', last'.id) = {}
             ELSE /\ ~last'.res.ok
                  /\ last'.res.err = NotFound(NotFoundMessage(last'.id))
                  /\ todos' = todos
          /\ (last.op = "delete" /\ last.res.ok /\ last.id = last'.id) =>
               /\ ~last'.res.ok
               /\ last'.res.err.variant = "NotFound"
               /\ todos' = todos]_vars

\* C4 witness: a delete of an identifier that was created and is stored no
\* more has failed, while another record is still stored.
C4_Witness ==
  /\ last.op = "delete"
  /\ ~last.res.ok
  /\ last.id < nextId
  /\ todos # {}
  /\ todos = before

\* C5: markCompleted of an existing record succeeds whether or not the record
\* was completed; the record comes out with completed = true, updated_at later
\* than before and every other field as it was, so applying it again changes
\* nothing but updated_at.
C5_MarkCompletedIdempotent ==
  [][(StepFinished /\ last'.op = "mark_completed" /\ WhereId(todos, last'.id) # {}) =>
       /\ last'.res.ok
       /\ last'.http.status = OK
       /\ LET old == RowOf(todos, last'.id)
              new == last'.res.val
          IN /\ new.completed
             /\ new = [old EXCEPT !.completed = TRUE, !.updated_at = new.updated_at]
             /\ new.updated_at > old.updated_at
             /\ todos' = (todos \ {old}) \cup {new}
             /\ (last.op = "mark_completed" /\ last.res.ok /\ last.id = last'.id) =>
                  /\ new = [last.res.val EXCEPT !.updated_at = new.updated_at]
                  /\ new.updated_at > last.res.val.updated_at]_vars

\* C5 witness: markCompleted has answered for a record that was completed
\* already.
C5_Witness ==
  /\ last.op = "mark_completed"
  /\ last.res.ok
  /\ \E old \in before :
       /\ old.id = last.id
       /\ old.completed
       /\ last.res.val.updated_at > old.updated_at

\* C6: list answers 200 with exactly the stored records (absent filter) or
\* exactly those whose completed flag equals the filter, each once, in
\* created_at descending order; with no match the answer is the empty sequence.
C6_ListExactDescending ==
  (last.op = "list") =>
    /\ last.res.ok
    /\ last.http.status = OK
    /\ LET rows == last.res.val
           want == IF last.arg.some
                   THEN {r \in todos : r.completed = last.arg.val}
                   ELSE todos
       IN /\ {rows[i] : i \in 1 .. Len(rows)} = want
          /\ Len(rows) = Cardinality(want)
          /\ \A i, j \in 1 .. Len(rows) :
               i < j => rows[i].created_at >= rows[j].created_at
    /\ todos = before

\* C6 witness: a filtered list has answered with some of the stored records
\* and not the others.
C6_Witness ==
  /\ last.op = "list"
  /\ last.arg = Some(TRUE)
  /\ Len(last.res.val) >= 1
  /\ Cardinality(todos) > Len(last.res.val)

\* C7: create adds exactly one record and changes no other; the record it
\* returns (201) has the input's title and description, completed = false, an
\* identifier no stored record had, and created_at = updated_at.
C7_CreateAppendsOne ==
  (last.op = "create") =>
    /\ last.res.ok
    /\ last.http.status = CREATED
    /\ LET new == last.res.val
       IN /\ WhereId(before, new.id) = {}
          /\ todos = before \cup {new}
          /\ Cardinality(todos) = Cardinality(before) + 1
          /\ new.title = last.arg.title
          /\ new.description = last.arg.description
          /\ ~new.completed
          /\ new.created_at = new.updated_at
          /\ last.http.body = new

\* C7 witness: a create with a description has answered while another record
\* was stored.
C7_Witness ==
  /\ last.op = "create"
  /\ last.res.ok
  /\ last.arg.description.some
  /\ before # {}

\* C8: after every step every stored record has created_at <= updated_at, and
\* no step changes the created_at of a record that stays stored.
C8_CreatedAtFixed ==
  [][/\ \A r \in todos' : r.created_at <= r.updated_at
     /\ \A r \in todos, q \in todos' :
          r.id = q.id => q.created_at = r.created_at]_vars

\* C8 witness: a record created after another one has been written again
\* since.
C8_Witness ==
  \E r \in todos :
    /\ r.created_at > 1
    /\ r.updated_at > r.created_at
    /\ last.op \in {"update", "mark_completed"}
    /\ last.res.ok

\* C9: the transport status of a mapped error is decided by its variant
\* (NotFound 404, BadRequest 400, Unauthorized 401, DatabaseError and Internal
\* 500) and its body is the object {status: "fail", message} with the error's
\* message.
C9_ErrorMapping ==
  (last.op = "into_response") =>
    LET e == last.err
    IN /\ last.http.status =
            (CASE e.variant = "NotFound" -> 404
               [] e.variant = "BadRequest" -> 400
               [] e.variant = "Unauthorized" -> 401
               [] e.variant \in {"DatabaseError", "Internal"} -> 500)
       /\ DOMAIN last.http.body = {"status", "message"}
       /\ last.http.body.status = "fail"
       /\ last.http.body.message =
            (IF e.variant = "DatabaseError" THEN SqlxToString(e.source) ELSE e.msg)

\* C9 witness: an Unauthorized error has been mapped.
C9_Witness ==
  /\ last.op = "into_response"
  /\ last.err.variant = "Unauthorized"
  /\ last.http.status = UNAUTHORIZED

\* C10: a record appears in the store only in a step that is a successful
\* create, disappears only in a successful delete, has a field changed only in
\* a successful update or markCompleted; get and list change nothing.
C10_Lifecycle ==
  [][/\ (\E q \in todos' : WhereId(todos, q.id) = {}) =>
          StepFinished /\ last'.op = "create" /\ last'.res.ok
     /\ (\E r \in todos : WhereId(todos', r.id) = {}) =>
          StepFinished /\ last'.op = "delete" /\ last'.res.ok
     /\ (\E r \in todos, q \in todos' : r.id = q.id /\ r # q) =>
          StepFinished /\ last'.op \in {"update", "mark_completed"} /\ last'.res.ok
     /\ (StepFinished /\ last'.op \in {"get", "list"}) => todos' = todos]_vars

\* C10 witness: a get has answered with a stored record and left the store of
\* two records as it was.
C10_Witness ==
  /\ last.op = "get"
  /\ last.res.ok
  /\ Cardinality(todos) = 2
  /\ todos = before

\* The last finished request is an update that passed its existence check and
\* whose record was removed before its second statement ran.
UpdateRaced ==
  /\ last.op = "update"
  /\ last.stmt = "apply"
  /\ last.present
  /\ WhereId(before, last.id) = {}

\* C11: an update whose record is deleted between its existence check and its
\* second statement writes nothing (no record is recreated or modified) and
\* fails, for every input, with the storage's "no row" error answered as
\* transport status 500, not with NotFound.
C11_RacedUpdateIsDatabaseError ==
  UpdateRaced =>
    /\ ~last.res.ok
    /\ last.res.err.variant = "DatabaseError"
    /\ last.res.err.source = "RowNotFound"
    /\ last.http.status = 500
    /\ last.http.body =
         [status |-> "fail", message |-> SqlxToString("RowNotFound")]
    /\ todos = before
    /\ WhereId(todos, last.id) = {}

\* C11 witness: an update supplying fields has failed after its record was
\* deleted in the window, while another record is stored.
C11_Witness ==
  /\ UpdateRaced
  /\ ~last.res.ok
  /\ last.arg # EmptyInput
  /\ last.id < nextId
  /\ todos # {}

\* The same for the empty input, whose second statement is the SELECT.
C11_EmptyInputRaced ==
  /\ UpdateRaced
  /\ ~last.res.ok
  /\ last.arg = EmptyInput

====
